---- MODULE Spec2Model ----
(***************************************************************************)
(* A model of spotify/search.py: the SearchResult handle, the process-wide *)
(* spotify.callback_dict registry and the _search_complete_callback        *)
(* dispatch entry point that libspotify invokes when a search completes.   *)
(***************************************************************************)
EXTENDS Integers, Sequences, FiniteSets, TLC

\* ------------------------------------------------------------------ bounds
MaxHandles == 2     \* SearchResult objects constructed in one behaviour
NumThreads == 2     \* threads on which libspotify may run the completion callback
MaxKeys == 2        \* distinct values uuid4().hex takes in one behaviour
MaxExtra == 1       \* callback invocations beyond the one per created search
MaxViews == 1       \* utils.Sequence views built in one behaviour
MaxTime == 3        \* clock ticks in one behaviour

\* ------------------------------------------------------- program constants
DefaultOffset == 0  \* track_offset=0, album_offset=0, ...
DefaultCount == 20  \* track_count=20, album_count=20, ...
NoRes == 0          \* sp_search=None / self._sp_search not yet assigned
NoKey == 0          \* no correlation key
NoHandle == 0       \* no SearchResult
NoneCount == -1     \* track_count=None, ... in more()

NoCallback == "None"
NoQuery == "None"
NoType == "None"
NoExc == "None"

Handles == 1..MaxHandles
Threads == 1..NumThreads
Keys == 1..MaxKeys
GarbageKey == MaxKeys + 1   \* a 32 byte content that is no key drawn by uuid4
Cats == {"track", "album", "artist", "playlist"}
Queries == {"", "abba"}

VARIABLES
    handle,         \* the SearchResult objects: their attributes and where __init__ stands
    callback_dict,  \* spotify.callback_dict: key -> (callback, search_result)
    buffers,        \* the char[32] userdata buffer each __init__ allocates
    res,            \* the sp_search objects of libspotify, one per sp_search_create
    thr,            \* the threads running _search_complete_callback
    returned,       \* how the last finished _search_complete_callback ended
    stats,          \* per SearchResult: complete_event.set() calls and callback calls
    extra,          \* callback invocations made beyond the one per created search
    lastCall,       \* the last property read or method call made by the application
    views,          \* number of utils.Sequence views built
    seqs,           \* per sp_search: the utils.Sequence views that are alive
    ld,             \* the utils.load() call in progress
    now             \* the clock

vars ==
    <<handle, callback_dict, buffers, res, thr, returned, stats, extra, lastCall, views, seqs,
      ld, now>>

\* ---------------------------------------------------------------- values
Window(o, c) == [offset |-> [x \in Cats |-> o], count |-> [x \in Cats |-> c]]

NoEntry == [callback |-> NoCallback, h |-> NoHandle]

NewHandle ==
    [pc |-> "none", callback |-> NoCallback,
     offset |-> [x \in Cats |-> DefaultOffset], count |-> [x \in Cats |-> DefaultCount],
     search_type |-> NoType, sp_search |-> NoRes, complete_event |-> FALSE, key |-> NoKey]

NewRes ==
    [state |-> "none", loaded |-> FALSE, error |-> "OK", refs |-> 0,
     query |-> "", search_type |-> "STANDARD",
     offset |-> [x \in Cats |-> DefaultOffset], count |-> [x \in Cats |-> DefaultCount],
     userdata |-> NoHandle]

NullUd == [kind |-> "NULL", h |-> NoHandle]
StrayUd == [kind |-> "stray", h |-> NoHandle]
BufUd(h) == [kind |-> "buf", h |-> h]

IdleThread ==
    [pc |-> "idle", ud |-> NullUd, key |-> NoKey, callback |-> NoCallback, h |-> NoHandle]

\* what a finished dispatch logged last and the exception that left it
Return(log, exc) == [log |-> log, exc |-> exc]

NoCall == [op |-> "none", h |-> NoHandle, cb |-> NoCallback,
           counts |-> [x \in Cats |-> NoneCount], kind |-> "none", val |-> "", new |-> NoHandle]

IdleLoad == [pc |-> "idle", h |-> NoHandle, deadline |-> 0]

\* ------------------------------------------------------ libspotify, cffi
\* is_loaded with the call left out: bool() of the function itself
is_loaded_uncalled(h) == "True"

\* lib.sp_search_is_loaded(self._sp_search) and bool() of it
is_loaded(h) ==
    IF handle[h].sp_search = NoRes THEN "AttributeError"
    ELSE IF res[handle[h].sp_search].loaded THEN "True" ELSE "False"

\* spotify.ErrorType(lib.sp_search_error(self._sp_search))
error(h) ==
    IF handle[h].sp_search = NoRes THEN "AttributeError"
    ELSE res[handle[h].sp_search].error

\* lib.sp_search_query(sp_search): the query text, empty while the search is
\* not loaded ("Will always return None if the search isn't loaded")
sp_search_query(r) == IF res[r].loaded THEN res[r].query ELSE ""

\* spotify.Error.maybe_raise(error_type): raises unless the error type is OK
maybe_raise(e) == e # "OK"

\* utils.to_bytes(query) and ffi.new('char[]', ...): None has no text
to_bytes(q) == IF q = NoQuery THEN "" ELSE q

\* int(search_type) after "if search_type is None: search_type = SearchType.STANDARD"
CreateType(st) == IF st = NoType THEN "STANDARD" ELSE st

\* ffi.string(ffi.cast('char[32]', userdata)): the bytes the pointer refers to now.
\* A buffer that ffi.new allocated is freed when __init__ returns; reading it
\* afterwards yields whatever the memory holds then.
ReadKey(ud) ==
    IF ud.kind = "buf" /\ buffers[ud.h] = "live" THEN {handle[ud.h].key}
    ELSE Keys \cup {GarbageKey}

\* callback_dict.get(key) in place of pop: the entry stays
DictPopKeeps(d, key) ==
    IF key \in Keys /\ d[key] # NoEntry
    THEN [value |-> d[key], rest |-> d, exc |-> NoExc]
    ELSE [value |-> NoEntry, rest |-> d, exc |-> NoExc]

\* callback_dict.pop(key) without the default: a missing key raises KeyError
DictPopNoDefault(d, key) ==
    IF key \in Keys /\ d[key] # NoEntry
    THEN [value |-> d[key], rest |-> [d EXCEPT ![key] = NoEntry], exc |-> NoExc]
    ELSE [value |-> NoEntry, rest |-> d, exc |-> "KeyError"]

\* callback_dict.popitem() in place of pop(key, None): some entry, whatever the key
DictPopItem(d, key) ==
    IF \E k \in Keys : d[k] # NoEntry
    THEN LET k == CHOOSE k \in Keys : d[k] # NoEntry
         IN [value |-> d[k], rest |-> [d EXCEPT ![k] = NoEntry], exc |-> NoExc]
    ELSE [value |-> NoEntry, rest |-> d, exc |-> NoExc]

\* spotify.callback_dict.pop(key, None)
DictPop(d, key) ==
    IF key \in Keys /\ d[key] # NoEntry
    THEN [value |-> d[key], rest |-> [d EXCEPT ![key] = NoEntry], exc |-> NoExc]
    ELSE [value |-> NoEntry, rest |-> d, exc |-> NoExc]

\* spotify.callback_dict[key] = (callback, self)
DictSet(d, key, cb, h) == [d EXCEPT ![key] = [callback |-> cb, h |-> h]]

\* the constructor with the assert of line 56 left out: every key passes
KeyFreeUnchecked(d, key) == TRUE

\* key not in spotify.callback_dict
KeyFree(d, key) == d[key] = NoEntry

\* ------------------------------------------------------------------ Init
Init ==
    /\ handle = [h \in Handles |-> NewHandle]
    /\ callback_dict = [k \in Keys |-> NoEntry]
    /\ buffers = [h \in Handles |-> "unalloc"]
    /\ res = [r \in Handles |-> NewRes]
    /\ thr = [t \in Threads |-> IdleThread]
    /\ returned = Return("none", NoExc)
    /\ stats = [h \in Handles |-> [sets |-> 0, calls |-> 0]]
    /\ extra = 0
    /\ lastCall = NoCall
    /\ views = 0
    /\ seqs = [r \in Handles |-> 0]
    /\ ld = IdleLoad
    /\ now = 0

\* the next SearchResult object to be allocated
FreeHandle(h) == handle[h].pc = "none" /\ \A g \in Handles : g < h => handle[g].pc # "none"

\* the thread libspotify runs the next callback on
FreeThread(t) == thr[t].pc = "idle" /\ \A u \in Threads : u < t => thr[u].pc # "idle"

\* ------------------------------------------------- SearchResult.__init__
\* Lines 37-68 with sp_search=None: the attributes, the key, the assertion, the
\* registration and the sp_search_create call. The resource of the search
\* created by handle h is resource h.
InitIssue(h, query, cb, win, st, key) ==
    /\ FreeHandle(h)
    /\ IF ~KeyFree(callback_dict, key)
       THEN /\ handle' = [handle EXCEPT ![h] =
                    [NewHandle EXCEPT !.pc = "failed", !.callback = cb,
                        !.offset = win.offset, !.count = win.count, !.search_type = st]]
            /\ UNCHANGED <<callback_dict, buffers, res>>
       ELSE /\ handle' = [handle EXCEPT ![h] =
                    [NewHandle EXCEPT !.pc = "issued", !.callback = cb,
                        !.offset = win.offset, !.count = win.count, !.search_type = st,
                        !.key = key]]
            /\ buffers' = [buffers EXCEPT ![h] = "live"]
            /\ callback_dict' = DictSet(callback_dict, key, cb, h)
            /\ res' = [res EXCEPT ![h] =
                    [state |-> "pending", loaded |-> FALSE, error |-> "OK", refs |-> 1,
                     query |-> to_bytes(query), search_type |-> CreateType(st),
                     offset |-> win.offset, count |-> win.count, userdata |-> h]]

\* Lines 70-72 and the return: add_ref is False, self._sp_search is assigned,
\* and the local userdata buffer goes out of scope.
InitStore(h) ==
    /\ handle[h].pc = "issued"
    /\ handle' = [handle EXCEPT ![h].pc = "done", ![h].sp_search = h]
    /\ buffers' = [buffers EXCEPT ![h] = "freed"]
    /\ UNCHANGED <<callback_dict, res, thr, returned, stats, extra, lastCall, views, seqs, ld, now>>

\* SearchResult(query, callback, ...) called by the application
Construct(h, query, cb, win, st, key) ==
    /\ InitIssue(h, query, cb, win, st, key)
    /\ UNCHANGED <<thr, returned, stats, extra, lastCall, views, seqs, ld, now>>

\* ------------------------------------------------------------- libspotify
Outcomes ==
    {[loaded |-> TRUE, error |-> "OK"],
     [loaded |-> FALSE, error |-> "Err"],
     [loaded |-> TRUE, error |-> "Err"]}

Enter(t, ud) ==
    thr' = [thr EXCEPT ![t] = [IdleThread EXCEPT !.pc = "entered", !.ud = ud]]

\* The search r finishes: libspotify records the outcome and invokes the
\* completion callback with the userdata pointer given to sp_search_create.
TransportComplete(r, t, o) ==
    /\ res[r].state = "pending"
    /\ FreeThread(t)
    /\ res' = [res EXCEPT ![r].state = "done", ![r].loaded = o.loaded, ![r].error = o.error]
    /\ Enter(t, BufUd(res[r].userdata))
    /\ UNCHANGED <<handle, callback_dict, buffers, returned, stats, extra, lastCall, views, seqs, ld, now>>

\* The completion callback is invoked once more for a search already completed.
TransportDuplicate(r, t) ==
    /\ res[r].state = "done"
    /\ extra < MaxExtra
    /\ FreeThread(t)
    /\ extra' = extra + 1
    /\ Enter(t, BufUd(res[r].userdata))
    /\ UNCHANGED <<handle, callback_dict, buffers, res, returned, stats, lastCall, views, seqs, ld, now>>

\* The completion callback is invoked with NULL or with a pointer to bytes
\* that no __init__ wrote.
TransportStray(t, ud) ==
    /\ extra < MaxExtra
    /\ FreeThread(t)
    /\ extra' = extra + 1
    /\ Enter(t, ud)
    /\ UNCHANGED <<handle, callback_dict, buffers, res, returned, stats, lastCall, views, seqs, ld, now>>

\* ----------------------------------------------- _search_complete_callback
\* Lines 282-292: the NULL check, the key read, the pop and the check of its result.
DispatchLookup(t, key) ==
    /\ thr[t].pc = "entered"
    /\ IF thr[t].ud.kind = "NULL"
       THEN /\ thr' = [thr EXCEPT ![t] = IdleThread]
            /\ returned' = Return("without userdata", NoExc)
            /\ UNCHANGED callback_dict
       ELSE /\ key \in ReadKey(thr[t].ud)
            /\ LET p == DictPop(callback_dict, key) IN
               /\ callback_dict' = p.rest
               /\ IF p.exc # NoExc
                  THEN /\ thr' = [thr EXCEPT ![t] = IdleThread]
                       /\ returned' = Return("none", p.exc)
                  ELSE IF p.value = NoEntry
                  THEN /\ thr' = [thr EXCEPT ![t] = IdleThread]
                       /\ returned' = Return("not in callback_dict", NoExc)
                  ELSE /\ thr' = [thr EXCEPT ![t].pc = "set", ![t].key = key,
                                    ![t].callback = p.value.callback, ![t].h = p.value.h]
                       /\ UNCHANGED returned
    /\ UNCHANGED <<handle, buffers, res, stats, extra, lastCall, views, seqs, ld, now>>

\* the dispatch with the complete_event.set() call left out
DispatchSetSkipped(t) ==
    /\ thr[t].pc = "set"
    /\ thr' = [thr EXCEPT ![t].pc = "call"]
    /\ UNCHANGED <<handle, stats, callback_dict, buffers, res, returned, extra, lastCall,
                   views, seqs, ld, now>>

\* the dispatch signalling every SearchResult that holds the completed search
DispatchSetResource(t) ==
    /\ thr[t].pc = "set"
    /\ handle' = [h \in Handles |->
            IF h = thr[t].h \/ (handle[h].pc = "done" /\ handle[h].sp_search = thr[t].h)
            THEN [handle[h] EXCEPT !.complete_event = TRUE] ELSE handle[h]]
    /\ stats' = [stats EXCEPT ![thr[t].h].sets = @ + 1]
    /\ thr' = [thr EXCEPT ![t].pc = "call"]
    /\ UNCHANGED <<callback_dict, buffers, res, returned, extra, lastCall, views, seqs, ld, now>>

\* Lines 293-294: search_result.complete_event.set()
DispatchSet(t) ==
    /\ thr[t].pc = "set"
    /\ handle' = [handle EXCEPT ![thr[t].h].complete_event = TRUE]
    /\ stats' = [stats EXCEPT ![thr[t].h].sets = @ + 1]
    /\ thr' = [thr EXCEPT ![t].pc = "call"]
    /\ UNCHANGED <<callback_dict, buffers, res, returned, extra, lastCall, views, seqs, ld, now>>

\* Lines 295-296: if callback is not None: callback(search_result)
DispatchCall(t) ==
    /\ thr[t].pc = "call"
    /\ IF thr[t].callback = NoCallback
       THEN /\ thr' = [thr EXCEPT ![t] = IdleThread]
            /\ returned' = Return("delivered", NoExc)
            /\ UNCHANGED stats
       ELSE /\ thr' = [thr EXCEPT ![t].pc = "incb"]
            /\ stats' = [stats EXCEPT ![thr[t].h].calls = @ + 1]
            /\ UNCHANGED returned
    /\ UNCHANGED <<handle, callback_dict, buffers, res, extra, lastCall, views, seqs, ld, now>>

\* the dispatch removing its key only when the callback has ended
CallbackReturnPops(t, raises) ==
    /\ thr[t].pc = "incb"
    /\ thr' = [thr EXCEPT ![t] = IdleThread]
    /\ returned' = Return("delivered", IF raises THEN "CallbackError" ELSE NoExc)
    /\ callback_dict' = [callback_dict EXCEPT ![thr[t].key] = NoEntry]
    /\ UNCHANGED <<handle, buffers, res, stats, extra, lastCall, views, seqs, ld, now>>

\* The user callback returns or raises; what it raises leaves the dispatch.
CallbackReturn(t, raises) ==
    /\ thr[t].pc = "incb"
    /\ thr' = [thr EXCEPT ![t] = IdleThread]
    /\ returned' = Return("delivered", IF raises THEN "CallbackError" ELSE NoExc)
    /\ UNCHANGED <<handle, callback_dict, buffers, res, stats, extra, lastCall, views, seqs, ld, now>>

\* ------------------------------------------------ SearchResult properties
\* what a property read or a method call gives back
Raise(e) == [kind |-> "raise", val |-> e]
Empty == [kind |-> "empty", val |-> ""]
View(c) == [kind |-> "Sequence", val |-> c]
Value(v) == [kind |-> "value", val |-> v]

\* query without the maybe_raise(self.error) call of line 107
query_unraised(h) ==
    Value(IF sp_search_query(handle[h].sp_search) = "" THEN NoQuery
          ELSE sp_search_query(handle[h].sp_search))

\* utils.to_unicode(lib.sp_search_query(...)) and "query if query else None"
query(h) ==
    IF maybe_raise(error(h)) THEN Raise(error(h))
    ELSE Value(IF sp_search_query(handle[h].sp_search) = "" THEN NoQuery
               ELSE sp_search_query(handle[h].sp_search))

did_you_mean(h) ==
    IF maybe_raise(error(h)) THEN Raise(error(h)) ELSE Value("did_you_mean")

\* tracks without the is_loaded check
tracks_unchecked(h) ==
    IF maybe_raise(error(h)) THEN Raise(error(h)) ELSE View("tracks")

tracks(h) ==
    IF maybe_raise(error(h)) THEN Raise(error(h))
    ELSE IF is_loaded(h) # "True" THEN Empty
    ELSE View("tracks")

track_total(h) ==
    IF maybe_raise(error(h)) THEN Raise(error(h)) ELSE Value("total_tracks")

\* albums with the is_loaded check ahead of the error check
albums_loaded_first(h) ==
    IF is_loaded(h) # "True" THEN Empty
    ELSE IF maybe_raise(error(h)) THEN Raise(error(h))
    ELSE View("albums")

albums(h) ==
    IF maybe_raise(error(h)) THEN Raise(error(h))
    ELSE IF is_loaded(h) # "True" THEN Empty
    ELSE View("albums")

album_total(h) ==
    IF maybe_raise(error(h)) THEN Raise(error(h)) ELSE Value("total_albums")

artists(h) ==
    IF maybe_raise(error(h)) THEN Raise(error(h))
    ELSE IF is_loaded(h) # "True" THEN Empty
    ELSE View("artists")

artist_total(h) ==
    IF maybe_raise(error(h)) THEN Raise(error(h)) ELSE Value("total_artists")

playlists(h) ==
    IF maybe_raise(error(h)) THEN Raise(error(h))
    ELSE IF is_loaded(h) # "True" THEN Empty
    ELSE View("playlists")

playlist_total(h) ==
    IF maybe_raise(error(h)) THEN Raise(error(h)) ELSE Value("total_playlists")

CategoryOps == {"tracks", "albums", "artists", "playlists"}
TotalOps == {"track_total", "album_total", "artist_total", "playlist_total"}
Ops == CategoryOps \cup TotalOps \cup {"query", "did_you_mean"}

Result(op, h) ==
    CASE op = "query" -> query(h)
      [] op = "did_you_mean" -> did_you_mean(h)
      [] op = "tracks" -> tracks(h)
      [] op = "track_total" -> track_total(h)
      [] op = "albums" -> albums(h)
      [] op = "album_total" -> album_total(h)
      [] op = "artists" -> artists(h)
      [] op = "artist_total" -> artist_total(h)
      [] op = "playlists" -> playlists(h)
      [] op = "playlist_total" -> playlist_total(h)

\* The objects application code can hold: the SearchResult objects whose
\* constructor has returned, and the one a running callback was called with.
Accessible(h) ==
    \/ handle[h].pc = "done"
    \/ \E t \in Threads : thr[t].pc = "incb" /\ thr[t].h = h

\* The application reads property op of h. A category property of a loaded
\* search takes a reference (lib.sp_search_add_ref) for the Sequence it returns.
Access(h, op) ==
    /\ Accessible(h)
    /\ LET r == Result(op, h) IN
       /\ lastCall' = [NoCall EXCEPT !.op = op, !.h = h, !.kind = r.kind, !.val = r.val]
       /\ IF r.kind = "Sequence"
          THEN /\ views < MaxViews
               /\ views' = views + 1
               /\ seqs' = [seqs EXCEPT ![handle[h].sp_search] = @ + 1]
               /\ res' = [res EXCEPT ![handle[h].sp_search].refs = @ + 1]
          ELSE UNCHANGED <<views, seqs, res>>
    /\ UNCHANGED <<handle, callback_dict, buffers, thr, returned, stats, extra, ld, now>>

\* ------------------------------------------------------ SearchResult.more
\* Python's "a or b" on a count argument: None and 0 are false
OrCount(a, b) == IF a = NoneCount \/ a = 0 THEN b ELSE a

\* Python's "a or b" on a callback argument: None is false
OrCallback(a, b) == IF a = NoCallback THEN b ELSE a

\* the next page's offsets advanced by the new counts, not the previous ones
MoreArgsNewCount(h, cb, counts) ==
    [callback |-> OrCallback(cb, handle[h].callback),
     offset |-> [c \in Cats |-> handle[h].offset[c] + OrCount(counts[c], handle[h].count[c])],
     count |-> [c \in Cats |-> OrCount(counts[c], handle[h].count[c])]]

\* Lines 256-264: the arguments of the next page
MoreArgs(h, cb, counts) ==
    [callback |-> OrCallback(cb, handle[h].callback),
     offset |-> [c \in Cats |-> handle[h].offset[c] + handle[h].count[c]],
     count |-> [c \in Cats |-> OrCount(counts[c], handle[h].count[c])]]

\* Lines 266-272: self.query is read, then SearchResult(...) is constructed
\* (its __init__ up to the sp_search_create call; InitStore finishes it).
More(h, cb, counts, key) ==
    /\ Accessible(h)
    /\ LET a == MoreArgs(h, cb, counts)
           q == query(h)
           call == [NoCall EXCEPT !.op = "more", !.h = h, !.cb = cb, !.counts = counts]
       IN IF q.kind = "raise"
          THEN /\ lastCall' = [call EXCEPT !.kind = "raise", !.val = q.val]
               /\ UNCHANGED <<handle, callback_dict, buffers, res>>
          ELSE \E g \in Handles :
               /\ InitIssue(g, q.val, a.callback, [offset |-> a.offset, count |-> a.count],
                            handle[h].search_type, key)
               /\ lastCall' = IF KeyFree(callback_dict, key)
                              THEN [call EXCEPT !.kind = "Handle", !.new = g]
                              ELSE [call EXCEPT !.kind = "raise", !.val = "AssertionError"]
    /\ UNCHANGED <<thr, returned, stats, extra, views, seqs, ld, now>>

\* ------------------------------------------- SearchResult.load, utils.load
\* Line 99: the timeout handed to utils.load
load_timeout(timeout) == timeout

\* obj.load(timeout) is called: the deadline is set
LoadStart(h, timeout) ==
    /\ ld.pc # "waiting"
    /\ handle[h].pc = "done"
    /\ now + load_timeout(timeout) < MaxTime
    /\ ld' = [pc |-> "waiting", h |-> h, deadline |-> now + load_timeout(timeout)]
    /\ UNCHANGED <<handle, callback_dict, buffers, res, thr, returned, stats, extra,
                   lastCall, views, seqs, now>>

\* One round of the wait: loaded ends it (with the search's error, if it has
\* one), a passed deadline ends it with Timeout, otherwise it goes on waiting.
LoadPoll ==
    /\ ld.pc = "waiting"
    /\ ld' = [ld EXCEPT !.pc =
            IF is_loaded(ld.h) = "True"
            THEN IF maybe_raise(error(ld.h)) THEN "raised" ELSE "returned"
            ELSE IF now > ld.deadline THEN "timeout" ELSE "waiting"]
    /\ UNCHANGED <<handle, callback_dict, buffers, res, thr, returned, stats, extra,
                   lastCall, views, seqs, now>>

\* time passes
Tick ==
    /\ now < MaxTime
    /\ now' = now + 1
    /\ UNCHANGED <<handle, callback_dict, buffers, res, thr, returned, stats, extra,
                   lastCall, views, seqs, ld>>

\* ------------------------------------------------------------------ Spec
Next ==
    \/ \E h \in Handles, cb \in {"cbA", NoCallback}, key \in Keys :
            Construct(h, "abba", cb, Window(DefaultOffset, DefaultCount), NoType, key)
    \/ \E h \in Handles : InitStore(h)
    \/ \E r \in Handles, t \in Threads, o \in Outcomes : TransportComplete(r, t, o)
    \/ \E r \in Handles, t \in Threads : TransportDuplicate(r, t)
    \/ \E t \in Threads, ud \in {NullUd, StrayUd} : TransportStray(t, ud)
    \/ \E t \in Threads, key \in Keys \cup {GarbageKey} : DispatchLookup(t, key)
    \/ \E t \in Threads : DispatchSet(t)
    \/ \E t \in Threads : DispatchCall(t)
    \/ \E t \in Threads, raises \in BOOLEAN : CallbackReturn(t, raises)

Spec == Init /\ [][Next]_vars

\* ------------------------------------------- the application uses handles
\* SearchResult objects constructed one after another (the object h with key
\* h), each one still pending, or completed with one of the outcomes and
\* dispatched.
Statuses == {"none", "pending", "loaded", "failed", "loaded failed"}

InitHandles ==
    \E s \in [Handles -> Statuses] :
        /\ \A h \in Handles : s[h] # "none" =>
                h \in Keys /\ \A g \in Handles : g < h => s[g] # "none"
        /\ handle = [h \in Handles |->
                IF s[h] = "none" THEN NewHandle
                ELSE [NewHandle EXCEPT !.pc = "done", !.callback = "cbA", !.sp_search = h,
                                       !.complete_event = (s[h] # "pending"), !.key = h]]
        /\ callback_dict = [k \in Keys |->
                IF k \in Handles /\ s[k] = "pending" THEN [callback |-> "cbA", h |-> k]
                ELSE NoEntry]
        /\ buffers = [h \in Handles |-> IF s[h] = "none" THEN "unalloc" ELSE "freed"]
        /\ res = [r \in Handles |->
                IF s[r] = "none" THEN NewRes
                ELSE [NewRes EXCEPT !.state = IF s[r] = "pending" THEN "pending" ELSE "done",
                                    !.loaded = s[r] \in {"loaded", "loaded failed"},
                                    !.error = IF s[r] \in {"failed", "loaded failed"}
                                              THEN "Err" ELSE "OK",
                                    !.refs = 1, !.query = "abba", !.userdata = r]]
        /\ thr = [t \in Threads |-> IdleThread]
        /\ returned = IF \E h \in Handles : s[h] \notin {"none", "pending"}
                      THEN Return("delivered", NoExc) ELSE Return("none", NoExc)
        /\ stats = [h \in Handles |->
                IF s[h] \in {"none", "pending"} THEN [sets |-> 0, calls |-> 0]
                ELSE [sets |-> 1, calls |-> 1]]
        /\ extra = 0
        /\ lastCall = NoCall
        /\ views = 0
        /\ seqs = [r \in Handles |-> 0]
        /\ ld = IdleLoad
        /\ now = 0

NextUser == \E h \in Handles, op \in Ops : Access(h, op)

SpecUser == InitHandles /\ [][NextUser]_vars

\* ------------------------------------------------ more() over its inputs
\* A SearchResult whose search has completed and been dispatched, for every
\* window, callback, query and search type of the bounded input sets.
InitWindows ==
    {Window(DefaultOffset, DefaultCount),
     Window(DefaultCount, 0),
     [offset |-> [x \in Cats |-> IF x \in {"track", "artist"} THEN DefaultCount ELSE DefaultOffset],
      count |-> [x \in Cats |-> IF x \in {"track", "playlist"} THEN DefaultCount ELSE 0]],
     [offset |-> [x \in Cats |-> IF x \in {"album", "playlist"} THEN DefaultCount ELSE DefaultOffset],
      count |-> [x \in Cats |-> IF x \in {"album", "artist"} THEN DefaultCount ELSE 0]]}

\* The count arguments given to more(): none, one of them, or all of them,
\* each given one None, 0 or 5.
MoreCounts ==
    {f \in [Cats -> {NoneCount, 0, 5}] :
        \/ Cardinality({c \in Cats : f[c] # NoneCount}) <= 1
        \/ Cardinality({c \in Cats : f[c] = NoneCount}) = 0 /\ f["track"] = f["artist"]
                /\ f["album"] = f["playlist"]}

InitMore ==
    \E w \in InitWindows, cb \in {"cbA", NoCallback}, q \in Queries,
       st \in {NoType, "SUGGEST"}, o \in Outcomes :
        /\ o.error # "OK" => w = Window(DefaultOffset, DefaultCount)
        /\ handle = [h \in Handles |->
                IF h = 1
                THEN [pc |-> "done", callback |-> cb, offset |-> w.offset, count |-> w.count,
                      search_type |-> st, sp_search |-> 1, complete_event |-> TRUE, key |-> 1]
                ELSE NewHandle]
        /\ callback_dict = [k \in Keys |-> NoEntry]
        /\ buffers = [h \in Handles |-> IF h = 1 THEN "freed" ELSE "unalloc"]
        /\ res = [r \in Handles |->
                IF r = 1
                THEN [state |-> "done", loaded |-> o.loaded, error |-> o.error, refs |-> 1,
                      query |-> to_bytes(q), search_type |-> CreateType(st),
                      offset |-> w.offset, count |-> w.count, userdata |-> 1]
                ELSE NewRes]
        /\ thr = [t \in Threads |-> IdleThread]
        /\ returned = Return("delivered", NoExc)
        /\ stats = [h \in Handles |->
                IF h = 1 THEN [sets |-> 1, calls |-> IF cb = NoCallback THEN 0 ELSE 1]
                ELSE [sets |-> 0, calls |-> 0]]
        /\ extra = 0
        /\ lastCall = NoCall
        /\ views = 0
        /\ seqs = [r \in Handles |-> 0]
        /\ ld = IdleLoad
        /\ now = 0

NextMore ==
    \/ \E h \in Handles, key \in Keys, cb \in {"cbB", NoCallback} :
            /\ Accessible(h)
            /\ query(h).kind = "raise" \/ \E g \in Handles : FreeHandle(g)
            /\ \E counts \in MoreCounts : More(h, cb, counts, key)
    \/ \E h \in Handles : InitStore(h)

SpecMore == InitMore /\ [][NextMore]_vars

\* ----------------------------------------------------- load() and the clock
NextLoad ==
    \/ \E r \in Handles, o \in Outcomes : TransportComplete(r, 1, o)
    \/ \E key \in Keys \cup {GarbageKey} : DispatchLookup(1, key)
    \/ DispatchSet(1)
    \/ DispatchCall(1)
    \/ CallbackReturn(1, FALSE)
    \/ \E h \in Handles, timeout \in {0, 1} : LoadStart(h, timeout)
    \/ LoadPoll
    \/ Tick

\* The thread inside load() keeps running its loop, and time passes.
SpecLoad == InitHandles /\ [][NextLoad]_vars /\ WF_vars(LoadPoll) /\ WF_vars(Tick)

\* ------------------------------------- wrapping, and discarding, references
\* the wrap with the lib.sp_search_add_ref call left out
WrapNoAddRef(h, r, cb, add_ref) ==
    /\ FreeHandle(h)
    /\ res[r].refs > 0
    /\ handle' = [handle EXCEPT ![h] =
            [NewHandle EXCEPT !.pc = "done", !.callback = cb, !.sp_search = r]]
    /\ UNCHANGED <<res, callback_dict, buffers, thr, returned, stats, extra, lastCall, views,
                   seqs, ld, now>>

\* SearchResult(sp_search=r, add_ref=add_ref): lines 37-48 and 70-72. The
\* branch of line 50 is not taken: no key, no buffer, no callback_dict entry
\* and no sp_search_create. The pointer given refers to a search that exists.
Wrap(h, r, cb, add_ref) ==
    /\ FreeHandle(h)
    /\ res[r].refs > 0
    /\ handle' = [handle EXCEPT ![h] =
            [NewHandle EXCEPT !.pc = "done", !.callback = cb, !.sp_search = r]]
    /\ res' = IF add_ref THEN [res EXCEPT ![r].refs = @ + 1] ELSE res
    /\ UNCHANGED <<callback_dict, buffers, thr, returned, stats, extra, lastCall, views, seqs,
                   ld, now>>

\* Nothing refers to the SearchResult h any more: callback_dict holds no
\* (callback, h) pair, no dispatch works on it and no load() waits for it.
Unreferenced(h) ==
    /\ \A k \in Keys : callback_dict[k].h # h
    /\ \A t \in Threads : thr[t].h # h
    /\ ld.pc = "waiting" => ld.h # h

\* The SearchResult h is garbage collected: the destructor that line 72
\* attached, lib.sp_search_release, runs on self._sp_search.
Discard(h) ==
    /\ handle[h].pc = "done"
    /\ Unreferenced(h)
    /\ handle' = [handle EXCEPT ![h].pc = "discarded"]
    /\ res' = [res EXCEPT ![handle[h].sp_search].refs = @ - 1]
    /\ UNCHANGED <<callback_dict, buffers, thr, returned, stats, extra, lastCall, views, seqs,
                   ld, now>>

\* A utils.Sequence over the search r is garbage collected: the destructor of
\* its sp_obj, lib.sp_search_release (lines 134, 162, 190, 231), runs.
DiscardView(r) ==
    /\ seqs[r] > 0
    /\ seqs' = [seqs EXCEPT ![r] = @ - 1]
    /\ res' = [res EXCEPT ![r].refs = @ - 1]
    /\ UNCHANGED <<handle, callback_dict, buffers, thr, returned, stats, extra, lastCall,
                   views, ld, now>>

\* SearchResult objects are constructed, wrapped around searches that exist,
\* read and discarded while libspotify completes the searches.
NextRefs ==
    \/ \E h \in Handles, key \in Keys :
            Construct(h, "abba", "cbA", Window(DefaultOffset, DefaultCount), NoType, key)
    \/ \E h \in Handles : InitStore(h)
    \/ \E h, r \in Handles : Wrap(h, r, "cbW", TRUE)
    \/ \E r \in Handles, o \in Outcomes : TransportComplete(r, 1, o)
    \/ \E key \in Keys \cup {GarbageKey} : DispatchLookup(1, key)
    \/ DispatchSet(1)
    \/ DispatchCall(1)
    \/ CallbackReturn(1, FALSE)
    \/ \E h \in Handles, op \in {"tracks", "playlists"} : Access(h, op)
    \/ \E h \in Handles : Discard(h)
    \/ \E r \in Handles : DiscardView(r)

SpecRefs == Init /\ [][NextRefs]_vars

\* -------------------------------------------- every search gets completed
NextLive ==
    \/ \E h \in Handles, key \in Keys :
            Construct(h, "abba", "cbA", Window(DefaultOffset, DefaultCount), NoType, key)
    \/ \E h \in Handles : InitStore(h)
    \/ \E r \in Handles, o \in Outcomes : TransportComplete(r, 1, o)
    \/ \E key \in Keys \cup {GarbageKey} : DispatchLookup(1, key)
    \/ DispatchSet(1)
    \/ DispatchCall(1)
    \/ CallbackReturn(1, FALSE)

\* libspotify completes every search it was asked to create and runs the
\* completion callback to its end; a constructor that has started returns.
SpecLive ==
    /\ Init
    /\ [][NextLive]_vars
    /\ WF_vars(\E h \in Handles : InitStore(h))
    /\ WF_vars(\E r \in Handles, o \in Outcomes : TransportComplete(r, 1, o))
    /\ WF_vars(\E key \in Keys \cup {GarbageKey} : DispatchLookup(1, key))
    /\ WF_vars(DispatchSet(1))
    /\ WF_vars(DispatchCall(1))
    /\ WF_vars(CallbackReturn(1, FALSE))

\* ------------------------------------ a callback that asks for the next page
\* more() called without arguments
NoCounts == [c \in Cats |-> NoneCount]

\* The user callback, running inside the dispatch on thread t, calls more()
\* on the SearchResult it was called with.
CallbackMore(t, key) ==
    /\ thr[t].pc = "incb"
    /\ More(thr[t].h, NoCallback, NoCounts, key)

NextReenter ==
    \/ \E h \in Handles, key \in Keys :
            Construct(h, "abba", "cbA", Window(DefaultOffset, DefaultCount), NoType, key)
    \/ \E h \in Handles : InitStore(h)
    \/ \E r \in Handles, t \in Threads, o \in Outcomes : TransportComplete(r, t, o)
    \/ \E t \in Threads, key \in Keys \cup {GarbageKey} : DispatchLookup(t, key)
    \/ \E t \in Threads : DispatchSet(t)
    \/ \E t \in Threads : DispatchCall(t)
    \/ \E t \in Threads, key \in Keys : CallbackMore(t, key)
    \/ \E t \in Threads, raises \in BOOLEAN : CallbackReturn(t, raises)

SpecReenter == Init /\ [][NextReenter]_vars

\* ================================================================ claims
Delivering(t) == thr[t].pc \in {"set", "call", "incb"}

\* C1: of the completion callback invocations that reach one registration of a
\* key, from one thread after another or from several at once, at most one
\* delivers: complete_event is set at most once and the callback is called at
\* most once per SearchResult, never by two threads; an invocation that does
\* not deliver leaves callback_dict, every complete_event and the call counts
\* as they were and raises nothing.
C1_AtMostOneDelivery ==
    /\ [](\A h \in Handles :
            /\ stats[h].sets <= 1
            /\ stats[h].calls <= 1
            /\ Cardinality({t \in Threads : Delivering(t) /\ thr[t].h = h}) <= 1)
    /\ [][\A t \in Threads :
            (thr[t].pc = "entered" /\ thr'[t].pc = "idle") =>
                /\ callback_dict' = callback_dict
                /\ handle' = handle
                /\ stats' = stats
                /\ returned'.exc = NoExc]_vars

\* Two invocations carry the key of the same SearchResult at once: one has set
\* the signal, the other has not yet looked its key up.
C1_Witness ==
    \E t, u \in Threads :
        /\ thr[t].pc = "call" /\ thr[u].pc = "entered"
        /\ thr[u].ud = BufUd(thr[t].h)
        /\ buffers[thr[t].h] = "live"
        /\ stats[thr[t].h].sets = 1

\* C2: a completion callback invoked with NULL userdata, or with a key that
\* callback_dict does not hold, returns without raising; callback_dict, every
\* complete_event and the callback call counts stay as they were.
C2_NullOrUnknownKeyNoEffect ==
    [][\A t \in Threads, key \in Keys \cup {GarbageKey} :
        (/\ DispatchLookup(t, key)
         /\ \/ thr[t].ud.kind = "NULL"
            \/ key = GarbageKey
            \/ callback_dict[key] = NoEntry) =>
            /\ callback_dict' = callback_dict
            /\ \A h \in Handles : handle'[h].complete_event = handle[h].complete_event
            /\ stats' = stats
            /\ thr'[t].pc = "idle"
            /\ returned'.exc = NoExc]_vars

\* An invocation has found its key missing while another SearchResult is
\* registered and waiting.
C2_Witness ==
    /\ returned.log = "not in callback_dict"
    /\ \E k \in Keys : callback_dict[k] # NoEntry /\ ~handle[callback_dict[k].h].complete_event

\* C3: a user callback is running, or has run, only for a SearchResult whose
\* complete_event is already set.
C3_SignalBeforeCallback ==
    /\ \A t \in Threads : thr[t].pc = "incb" => handle[thr[t].h].complete_event
    /\ \A h \in Handles : stats[h].calls > 0 => handle[h].complete_event

\* A user callback is running.
C3_Witness == \E t \in Threads : thr[t].pc = "incb" /\ stats[thr[t].h].calls = 1

\* C4: a dispatch that read key k delivers to the SearchResult registered under
\* k: the object constructed with key k, with the callback it was constructed
\* with, and that object is what the callback is called with; setting the
\* signal and calling the callback touch no other SearchResult.
C4_DeliversToOwnHandle ==
    /\ [](\A t \in Threads : Delivering(t) =>
            /\ thr[t].h \in Handles
            /\ handle[thr[t].h].pc \in {"issued", "done"}
            /\ handle[thr[t].h].key = thr[t].key
            /\ handle[thr[t].h].callback = thr[t].callback)
    /\ [][\A t \in Threads :
            /\ DispatchSet(t) =>
                /\ handle'[thr[t].h].complete_event
                /\ \A g \in Handles \ {thr[t].h} : handle'[g] = handle[g] /\ stats'[g] = stats[g]
            /\ DispatchCall(t) =>
                /\ \A g \in Handles \ {thr[t].h} : handle'[g] = handle[g] /\ stats'[g] = stats[g]
                /\ thr[t].callback # NoCallback =>
                    stats'[thr[t].h].calls = stats[thr[t].h].calls + 1]_vars

\* Two searches are pending and the one constructed last is delivered first.
C4_Witness ==
    \E t \in Threads :
        /\ thr[t].pc = "incb" /\ thr[t].h = 2
        /\ callback_dict[handle[1].key].h = 1
        /\ ~handle[1].complete_event

\* C5: a SearchResult whose complete_event is set is loaded or has an error:
\* is_loaded is true or error is not OK.
C5_SignalImpliesCompleted ==
    \A h \in Handles :
        handle[h].complete_event =>
            \/ is_loaded(h) = "True"
            \/ error(h) \notin {"OK", "AttributeError"}

\* C6: on a SearchResult with error OK that is not loaded, tracks, albums,
\* artists and playlists return an empty list and leave the reference counts
\* and callback_dict as they were.
C6_EmptyWhenNotLoaded ==
    [][\A h \in Handles, op \in CategoryOps :
        (/\ lastCall'.op = op /\ lastCall'.h = h
         /\ error(h) = "OK" /\ is_loaded(h) = "False"
         /\ Access(h, op)) =>
            /\ lastCall'.kind = "empty"
            /\ res' = res
            /\ callback_dict' = callback_dict
            /\ views' = views]_vars

\* A category property has been read on a pending search and gave the empty list.
C6_Witness ==
    /\ lastCall.op \in CategoryOps
    /\ lastCall.kind = "empty"
    /\ error(lastCall.h) = "OK"
    /\ is_loaded(lastCall.h) = "False"

MoreFrom == lastCall.h
MoreNew == lastCall.new
MoreReturned == lastCall.op = "more" /\ lastCall.kind = "Handle"

C9_NotNoneIsUsed ==
    MoreReturned =>
        /\ \A c \in Cats :
            handle[MoreNew].count[c] =
                IF lastCall.counts[c] # NoneCount THEN lastCall.counts[c]
                ELSE handle[MoreFrom].count[c]
        /\ handle[MoreNew].callback =
                IF lastCall.cb # NoCallback THEN lastCall.cb ELSE handle[MoreFrom].callback

\* C10: load(timeout) ends: a load that is waiting stops waiting; it ends with
\* Timeout only after the deadline has passed, and it returns the SearchResult
\* only when the search is loaded.
C10_LoadTerminates ==
    /\ [](ld.pc = "returned" => res[handle[ld.h].sp_search].loaded)
    /\ [](ld.pc = "timeout" => now > ld.deadline)
    /\ ((ld.pc = "waiting") ~> (ld.pc # "waiting"))

\* load() has raised Timeout on a search whose completion has not fired.
C10_Witness ==
    /\ ld.pc = "timeout"
    /\ res[handle[ld.h].sp_search].state = "pending"
    /\ ~handle[ld.h].complete_event

\* C11: a load() that ends with Timeout changes nothing but the caller's wait:
\* the round of the wait that gives up leaves callback_dict, the SearchResult
\* objects, the call counts and the searches as they were; and when the
\* completion callback of that search is invoked after the timeout, it finds
\* the entry, which is still in callback_dict, and delivers to that
\* SearchResult, whose signal is set and whose callback is called once.
C11_TimeoutKeepsDelivery ==
    /\ [][LoadPoll =>
            /\ callback_dict' = callback_dict
            /\ handle' = handle
            /\ stats' = stats
            /\ res' = res]_vars
    /\ [](\A h \in Handles : stats[h].sets <= 1 /\ stats[h].calls <= 1)
    /\ [][\A t \in Threads, key \in Keys \cup {GarbageKey} :
            (/\ ld.pc = "timeout"
             /\ thr[t].ud = BufUd(ld.h)
             /\ callback_dict[handle[ld.h].key].h = ld.h
             /\ DispatchLookup(t, key)) =>
                /\ thr'[t].pc = "set"
                /\ thr'[t].h = ld.h
                /\ thr'[t].callback = handle[ld.h].callback]_vars

\* the SearchResult h was constructed by creating a search (it drew a key)
Created(h) == handle[h].pc \in {"issued", "done", "discarded"} /\ handle[h].key # NoKey

\* the SearchResult h was constructed around a search that existed
Wrapped(h) == handle[h].pc \in {"done", "discarded"} /\ handle[h].key = NoKey

\* the completion of the search that h created has not been dispatched: the
\* callback has not been invoked for it, or has not yet looked the key up
Undispatched(h) ==
    \/ res[h].state = "pending"
    \/ \E t \in Threads : thr[t].pc = "entered" /\ thr[t].ud = BufUd(h)

\* C12: callback_dict holds each key at most once, and its keys are exactly the
\* keys of the SearchResult objects that created a search whose completion has
\* not yet been dispatched, each mapped to that object; constructing a
\* SearchResult around an existing search inserts nothing, and only the
\* completion callback removes an entry.
C12_RegistryIsPending ==
    /\ [](/\ \A k \in Keys : callback_dict[k] # NoEntry =>
                /\ callback_dict[k].h \in Handles
                /\ Created(callback_dict[k].h)
                /\ handle[callback_dict[k].h].key = k
                /\ Undispatched(callback_dict[k].h)
          /\ \A h \in Handles : (Created(h) /\ Undispatched(h)) =>
                callback_dict[handle[h].key].h = h)
    /\ [][/\ \A h, r \in Handles : Wrap(h, r, "cbW", TRUE) => callback_dict' = callback_dict
          /\ (\E k \in Keys : callback_dict[k] # NoEntry /\ callback_dict'[k] = NoEntry) =>
                \E t \in Threads : thr[t].pc = "entered" /\ thr'[t].pc # "entered"]_vars

\* the SearchResult objects that hold a reference on the search r: the one
\* whose __init__ has it from sp_search_create, and those that stored it
LiveHandles(r) ==
    {h \in Handles : \/ handle[h].pc = "issued" /\ h = r
                     \/ handle[h].pc = "done" /\ handle[h].sp_search = r}

\* C13: every SearchResult and every Sequence view owns one reference on its
\* search (from sp_search_create, or taken by sp_search_add_ref when wrapping
\* with add_ref or when a view is built on a loaded search) and releases it
\* once when it is discarded: the reference count of a search is the number of
\* SearchResult objects and views alive on it, so it never drops below 0, is
\* not 0 while one of them is alive, and is 0 once all are discarded.
C13_ReferencesBalance ==
    \A r \in Handles :
        /\ res[r].refs >= 0
        /\ res[r].refs = Cardinality(LiveHandles(r)) + seqs[r]
        /\ (LiveHandles(r) # {} \/ seqs[r] > 0) => res[r].refs > 0
        /\ (LiveHandles(r) = {} /\ seqs[r] = 0) => res[r].refs = 0

\* A search was created, wrapped a second time and read through a view, and
\* both SearchResult objects and the view have been discarded.
C13_Witness ==
    \E r \in Handles :
        /\ res[r].state = "done"
        /\ views = 1 /\ seqs[r] = 0
        /\ \E h \in Handles : Wrapped(h) /\ handle[h].sp_search = r /\ handle[h].pc = "discarded"
        /\ handle[r].pc = "discarded"
        /\ res[r].refs = 0

\* C14: when libspotify invokes the completion callback for every search it
\* created, every SearchResult that created a search eventually has its
\* complete_event set and its entry removed from callback_dict, and once all
\* SearchResult objects are constructed callback_dict eventually is empty.
C14_EventuallyDelivered ==
    /\ \A h \in Handles :
            Created(h) ~> (handle[h].complete_event /\ callback_dict[handle[h].key].h # h)
    /\ (\A h \in Handles : handle[h].pc \notin {"none", "issued"}) ~>
            (\A k \in Keys : callback_dict[k] = NoEntry)

\* C15: a delivering dispatch has removed its entry from callback_dict before
\* it sets the signal and calls the user callback, and does not touch
\* callback_dict afterwards: while it delivers and after it has returned no
\* entry refers to the SearchResult it delivered; setting the signal, calling
\* the callback and the callback's return or exception leave callback_dict
\* as it is; a callback can always return; and a SearchResult that the
\* callback constructs through more() is registered under its key, with the
\* other entries untouched, and is still registered when the dispatch returns.
C15_NoRegistryAccessAfterPop ==
    /\ [](\A t \in Threads : Delivering(t) => \A k \in Keys : callback_dict[k].h # thr[t].h)
    /\ [](\A h \in Handles : stats[h].sets > 0 => \A k \in Keys : callback_dict[k].h # h)
    /\ [](\A t \in Threads : thr[t].pc = "incb" => ENABLED CallbackReturn(t, FALSE))
    /\ [][\A t \in Threads :
            (DispatchSet(t) \/ DispatchCall(t) \/ \E raises \in BOOLEAN : CallbackReturn(t, raises))
                => callback_dict' = callback_dict]_vars
    /\ [][\A t \in Threads, key \in Keys :
            (/\ thr[t].pc = "incb"
             /\ query(thr[t].h).kind # "raise"
             /\ KeyFree(callback_dict, key)
             /\ CallbackMore(t, key)) =>
                /\ lastCall'.kind = "Handle"
                /\ callback_dict'[key] =
                        [callback |-> handle[thr[t].h].callback, h |-> lastCall'.new]
                /\ handle'[lastCall'.new].key = key
                /\ \A k \in Keys \ {key} : callback_dict'[k] = callback_dict[k]
                /\ thr' = thr]_vars

\* A callback has called more(), which registered the next page under the key
\* the dispatch had just removed, and has then raised: the dispatch has
\* returned and the next page is still registered.
C15_Witness ==
    /\ returned.exc = "CallbackError"
    /\ \A t \in Threads : thr[t].pc = "idle"
    /\ lastCall.op = "more" /\ lastCall.kind = "Handle"
    /\ handle[lastCall.new].key = handle[lastCall.h].key
    /\ callback_dict[handle[lastCall.new].key].h = lastCall.new
    /\ stats[lastCall.h].calls = 1
    /\ stats[lastCall.new].sets = 0

\* C16: constructing a SearchResult when the key drawn is already in
\* callback_dict fails with AssertionError: callback_dict stays as it is (the
\* entry still maps to its callback and its SearchResult), no buffer is
\* allocated and sp_search_create is not called.
C16_CollisionFailsClean ==
    [][\A h \in Handles, cb \in {"cbA", NoCallback}, key \in Keys :
        (/\ handle'[h] # handle[h]
         /\ callback_dict[key] # NoEntry
         /\ Construct(h, "abba", cb, Window(DefaultOffset, DefaultCount), NoType, key)) =>
            /\ handle'[h].pc = "failed"
            /\ handle'[h].sp_search = NoRes
            /\ callback_dict' = callback_dict
            /\ buffers' = buffers
            /\ res' = res]_vars

\* The second SearchResult drew the key of the first, which is still pending:
\* it failed, and the first one's entry is in place.
C16_Witness ==
    /\ handle[2].pc = "failed"
    /\ handle[1].pc = "done"
    /\ callback_dict[handle[1].key] = [callback |-> handle[1].callback, h |-> 1]
    /\ res[1].state = "pending"
    /\ res[2].state = "none"

\* C17: a SearchResult whose complete_event the dispatch has set, or which the
\* user callback is being called with, is fully constructed: self._sp_search
\* is stored, so is_loaded and error do not fail on it.
C17_DeliveredIsConstructed ==
    /\ \A h \in Handles : handle[h].complete_event =>
            handle[h].sp_search # NoRes /\ handle[h].pc # "issued"
    /\ \A t \in Threads : thr[t].pc \in {"call", "incb"} =>
            /\ is_loaded(thr[t].h) # "AttributeError"
            /\ error(thr[t].h) # "AttributeError"

\* C18: the char[32] buffer whose address __init__ gave to sp_search_create is
\* alive whenever the completion callback invoked with that address is about
\* to read the key from it.
C18_KeyBufferOutlivesRead ==
    \A t \in Threads :
        (thr[t].pc = "entered" /\ thr[t].ud.kind = "buf") => buffers[thr[t].ud.h] = "live"

C20_MoreOnErrorRaises ==
    [][\A h \in Handles, key \in Keys :
        (/\ lastCall'.op = "more" /\ lastCall'.h = h
         /\ error(h) \notin {"OK", "AttributeError"}
         /\ More(h, lastCall'.cb, lastCall'.counts, key)) =>
            /\ lastCall'.kind = "raise"
            /\ lastCall'.val = error(h)
            /\ lastCall'.new = NoHandle
            /\ callback_dict' = callback_dict
            /\ res' = res
            /\ buffers' = buffers
            /\ handle' = handle]_vars

\* more() has raised the error of a loaded search that failed; nothing was
\* registered and no further SearchResult exists.
C20_Witness ==
    /\ lastCall.op = "more" /\ lastCall.kind = "raise" /\ lastCall.val = "Err"
    /\ is_loaded(lastCall.h) = "True"
    /\ \A k \in Keys : callback_dict[k] = NoEntry
    /\ \A g \in Handles \ {lastCall.h} : handle[g].pc = "none"

====
